---- MODULE Spec2Model ----
(***************************************************************************)
(* wg-gen-web, package wgapi: the WireGuard status / peer-mutation API.    *)
(*                                                                         *)
(*   server.go   Server, New, GetDeviceInfo, ListPeers, GetPeer, AddPeer,  *)
(*               RemovePeer and their request validators                   *)
(*   part_000    HTTP routes, clientStatus, updatePeerCall, UpdatePeer     *)
(*   part_001    the JSON-RPC style Error envelope and its constructors    *)
(*                                                                         *)
(* The kernel device, the wgctrl client, the client registry and the       *)
(* fallback core.UpdatePeer are external collaborators: the device is the  *)
(* variable devPeers, their failures are inputs of each handler.           *)
(***************************************************************************)
EXTENDS Integers, Sequences, FiniteSets, TLC

VARIABLES
    deviceNameEnv,  \* os.Getenv("WG_DEVICE_NAME")
    server,         \* the package variable `server` (server.go:15)
    nClients,       \* wgctrl clients (and Server handles) New() has constructed
    devPeers,       \* the peer list of the kernel device "wg0"
    now,            \* the wall clock, in ticks
    trace           \* what the last handler was given, did and answered

vars == <<deviceNameEnv, server, nClients, devPeers, now, trace>>

(***************************************************************************)
(* Bounds of the model.                                                    *)
(***************************************************************************)
\* New() may be entered this many times in one behaviour.
MaxClients == 2
\* Ticks in one time.Minute (the clock's resolution in the model).
Minute == 2
\* The clock of SpecStatus runs from NowBase to NowBase + MaxTicks.
MaxTicks == 1
\* The largest time.Duration, in ticks: Time.Sub saturates there.
MaxDuration == 20
\* Peers on the device in SpecStatus.
MaxPeers == 3
\* ServerError is applied to codes within CodeSlack of the reserved range.
CodeSlack == 60

(***************************************************************************)
(* Go values.                                                              *)
(***************************************************************************)
\* A nil pointer / nil request.
Nil == [nil |-> TRUE]
\* A nil error.
NoErr == [kind |-> "nil"]
\* An error made by fmt.Errorf or returned by a collaborator.
ErrorString(msg) == [kind |-> "errorString", Message |-> msg]

SeqToSet(s) == {s[i] : i \in 1..Len(s)}

RECURSIVE Count(_, _)
Count(s, x) ==
    IF s = <<>> THEN 0
    ELSE (IF Head(s) = x THEN 1 ELSE 0) + Count(Tail(s), x)

(***************************************************************************)
(* part_001: the Error envelope.                                           *)
(***************************************************************************)
Error(code, message, data) ==
    [kind |-> "Error", Code |-> code, Message |-> message, Data |-> data]

\* Error.Error() (part_001:15-17), and the text of any other error.
ErrorText(err) ==
    IF err.kind = "Error"
    THEN "Error(" \o ToString(err.Code) \o "): " \o err.Message
    ELSE err.Message

ParseError(message, data) == Error(-32700, message, data)

InvalidRequest(message, data) == Error(-32600, message, data)

MethodNotFound(message, data) == Error(-32601, message, data)

InvalidParams(message, data) == Error(-32602, message, data)

InternalError(message, data) == Error(-32603, message, data)

\* ServerError ignoring the code it is given.
ServerErrorFixedCode(code, message, data) == Error(-32000, message, data)

ServerError(code, message, data) == Error(code, message, data)

(***************************************************************************)
(* Strings the requests carry, and what the library parsers make of them.  *)
(* A wgtypes.Key is 32 bytes; the model names three of them.               *)
(***************************************************************************)
\* wgtypes.Key{} (all zero), and two other keys.
KeyZero == "key:00..00"
KeyOne == "key:04..00"
KeyTwo == "key:08..00"
KeyThree == "key:0c..00"

\* Key.String(): the padded base64 text of the 32 bytes (44 characters).
KeyString(k) ==
    CASE k = KeyZero -> "AAAAAAAAAAAAAAAAAAAAAAAAAAAAAAAAAAAAAAAAAAA="
      [] k = KeyOne -> "BAAAAAAAAAAAAAAAAAAAAAAAAAAAAAAAAAAAAAAAAAA="
      [] k = KeyTwo -> "CAAAAAAAAAAAAAAAAAAAAAAAAAAAAAAAAAAAAAAAAAA="
      [] k = KeyThree -> "DAAAAAAAAAAAAAAAAAAAAAAAAAAAAAAAAAAAAAAAAAA="

\* 44 characters whose last sextet has non-zero trailing bits: base64's
\* StdEncoding (not strict) drops them, so this decodes to KeyOne as well.
KeyOneLoose == "BAAAAAAAAAAAAAAAAAAAAAAAAAAAAAAAAAAAAAAAAAB="
\* 45 characters: a key followed by a newline, which the decoder skips.
KeyNewline == "BAAAAAAAAAAAAAAAAAAAAAAAAAAAAAAAAAAAAAAAAAA=\n"
\* 43 and 45 characters.
KeyShort == "BAAAAAAAAAAAAAAAAAAAAAAAAAAAAAAAAAAAAAAAAA="
KeyLong == "BAAAAAAAAAAAAAAAAAAAAAAAAAAAAAAAAAAAAAAAAAAA="
\* 44 characters, no padding: decodes to 33 bytes.
KeyUnpadded == "BAAAAAAAAAAAAAAAAAAAAAAAAAAAAAAAAAAAAAAAAAAA"
\* 44 characters, one outside the base64 alphabet.
KeyIllegal == "BAAAAAAAAAAAAAAAAAAAAAAAAAAAAAAAAAAAAAAAAA!="

\* The public keys requests carry.
KeyStrings ==
    {"", KeyShort, KeyLong, KeyUnpadded, KeyIllegal, KeyNewline, KeyOneLoose,
     KeyString(KeyOne), KeyString(KeyTwo)}

\* wgtypes.ParseKey: base64-decode, then require exactly 32 bytes.  A decoding
\* failure is base64.CorruptInputError, whose text names the offending byte:
\* the illegal character (KeyIllegal, byte 42), the end of input where the
\* second padding character is missing (KeyShort, byte 43), or a padding
\* character that opens a quantum (KeyLong, byte 44).  The table covers the
\* strings the requests carry and no others.
ParseKey(s) ==
    CASE s \in {KeyString(KeyOne), KeyOneLoose, KeyNewline} ->
            [ok |-> TRUE, key |-> KeyOne]
      [] s = KeyString(KeyZero) -> [ok |-> TRUE, key |-> KeyZero]
      [] s = KeyString(KeyTwo) -> [ok |-> TRUE, key |-> KeyTwo]
      [] s = KeyString(KeyThree) -> [ok |-> TRUE, key |-> KeyThree]
      [] s = KeyIllegal ->
            [ok |-> FALSE,
             err |-> "wgtypes: failed to parse base64-encoded key: illegal base64 data at input byte 42"]
      [] s = KeyUnpadded ->
            [ok |-> FALSE, err |-> "wgtypes: incorrect key size: 33"]
      [] s = KeyShort ->
            [ok |-> FALSE,
             err |-> "wgtypes: failed to parse base64-encoded key: illegal base64 data at input byte 43"]
      [] s = KeyLong ->
            [ok |-> FALSE,
             err |-> "wgtypes: failed to parse base64-encoded key: illegal base64 data at input byte 44"]
      [] s = "" ->
            [ok |-> FALSE, err |-> "wgtypes: incorrect key size: 0"]

\* net.ParseCIDR: the second result is the network, the address masked.
ParseCIDR(s) ==
    CASE s = "10.0.0.2/32" -> [ok |-> TRUE, net |-> "10.0.0.2/32"]
      [] s = "10.0.0.77/24" -> [ok |-> TRUE, net |-> "10.0.0.0/24"]
      [] s = "fd00::2/128" -> [ok |-> TRUE, net |-> "fd00::2/128"]
      [] OTHER -> [ok |-> FALSE, err |-> "invalid CIDR address: " \o s]

\* net.ResolveUDPAddr("udp", s) on literal addresses.
EndpointStrings == {"", "192.0.2.1:51820", "192.0.2.1"}

ResolveUDPAddr(s) ==
    CASE s = "192.0.2.1:51820" -> [ok |-> TRUE, addr |-> "192.0.2.1:51820"]
      [] s = "" -> [ok |-> FALSE, err |-> "missing address"]
      [] OTHER -> [ok |-> FALSE, err |-> "address " \o s \o ": missing port in address"]

\* time.ParseDuration; the duration in seconds.
KeepAliveStrings == {"", "25s", "25"}

ParseDuration(s) ==
    CASE s = "25s" -> [ok |-> TRUE, d |-> 25]
      [] s = "" -> [ok |-> FALSE, err |-> "time: invalid duration \"\""]
      [] OTHER -> [ok |-> FALSE, err |-> "time: missing unit in duration \"" \o s \o "\""]

\* Duration.String() of a whole number of seconds below a minute.
DurationString(d) == IF d = 25 THEN "25s" ELSE "0s"

(***************************************************************************)
(* The kernel device behind wgctrl.  A peer of the device:                 *)
(*   PublicKey, PresharedKey (Keys), Endpoint ("<nil>" when unset),        *)
(*   Keepalive (seconds), LastHandshakeTime (ticks, 0 = the zero Time),    *)
(*   AllowedIPs (networks, in the device's order).                         *)
(***************************************************************************)
DeviceName == "wg0"
\* The device's listen port.
ListenPort == 51820

\* A pointer field of wgtypes.PeerConfig: nil, or set to a value.
Unset == [set |-> FALSE]
Some(v) == [set |-> TRUE, val |-> v]

PeerConfig(publicKey) ==
    [PublicKey |-> publicKey, Remove |-> FALSE, PresharedKey |-> Unset,
     Endpoint |-> Unset, PersistentKeepaliveInterval |-> Unset,
     AllowedIPs |-> <<>>]

PeerKeys(peers) == {peers[i].PublicKey : i \in 1..Len(peers)}

PeerIndex(peers, k) == CHOOSE i \in 1..Len(peers) : peers[i].PublicKey = k

RECURSIVE Without(_, _)
Without(s, xs) ==
    IF s = <<>> THEN <<>>
    ELSE IF Head(s) \in xs THEN Without(Tail(s), xs)
    ELSE <<Head(s)>> \o Without(Tail(s), xs)

RECURSIVE Dedup(_)
Dedup(s) ==
    IF s = <<>> THEN <<>>
    ELSE <<Head(s)>> \o Without(Dedup(Tail(s)), {Head(s)})

RemovePeerFromDevice(peers, k) ==
    SelectSeq(peers, LAMBDA p : p.PublicKey # k)

\* The device applying one PeerConfig without Remove: the peer is created at
\* the end of the list when absent; fields given are set; each allowed IP is
\* taken from whichever peer held it and added to this one.
SetPeerOnDevice(peers, cfg) ==
    LET fresh == [PublicKey |-> cfg.PublicKey, PresharedKey |-> KeyZero,
                  Endpoint |-> "<nil>", Keepalive |-> 0,
                  LastHandshakeTime |-> 0, AllowedIPs |-> <<>>]
        base == IF cfg.PublicKey \in PeerKeys(peers) THEN peers
                ELSE Append(peers, fresh)
        nets == SeqToSet(cfg.AllowedIPs)
        upd(p) ==
            IF p.PublicKey # cfg.PublicKey
            THEN [p EXCEPT !.AllowedIPs = Without(@, nets)]
            ELSE [p EXCEPT
                    !.PresharedKey =
                        IF cfg.PresharedKey.set THEN cfg.PresharedKey.val ELSE @,
                    !.Endpoint =
                        IF cfg.Endpoint.set THEN cfg.Endpoint.val ELSE @,
                    !.Keepalive =
                        IF cfg.PersistentKeepaliveInterval.set
                        THEN cfg.PersistentKeepaliveInterval.val ELSE @,
                    !.AllowedIPs = Without(@, nets) \o Dedup(cfg.AllowedIPs)]
    IN [i \in 1..Len(base) |-> upd(base[i])]

\* wgctrl.Client.ConfigureDevice(name, Config{Peers: {cfg}}): the device after
\* the call.  A failed call (ok = FALSE) leaves the device as it was.
ConfigureDevice(peers, cfg, ok) ==
    IF ~ok THEN peers
    ELSE IF cfg.Remove THEN RemovePeerFromDevice(peers, cfg.PublicKey)
    ELSE SetPeerOnDevice(peers, cfg)

ErrConfigure == "could not configure WireGuard device: operation not permitted"
ErrDevice == "could not get WireGuard device: file does not exist"

(***************************************************************************)
(* server.go: requests, validators and the Server methods.  A method is    *)
(* an operator from the device and its inputs to                           *)
(*   [resp, err, calls, cfgs, dev]                                         *)
(* calls: the wgctrl calls made, in order; cfgs: the PeerConfigs given to  *)
(* ConfigureDevice; dev: the device afterwards.                            *)
(***************************************************************************)
AddPeerRequest(pk, psk, ep, ka, ips, vo) ==
    [PublicKey |-> pk, PresharedKey |-> psk, Endpoint |-> ep,
     PersistentKeepAlive |-> ka, AllowedIPs |-> ips, ValidateOnly |-> vo]

RemovePeerRequest(pk, vo) == [PublicKey |-> pk, ValidateOnly |-> vo]

GetPeerRequest(pk) == [PublicKey |-> pk]

Result(resp, err, calls, cfgs, dev) ==
    [resp |-> resp, err |-> err, calls |-> calls, cfgs |-> cfgs, dev |-> dev]

\* The validators' checks of the public key without the length check.
validatePublicKeyNoLength(req) ==
    IF req = Nil THEN InvalidParams("request body required", Nil)
    ELSE IF req.PublicKey = "" THEN InvalidParams("public key is required", Nil)
    ELSE IF ~ParseKey(req.PublicKey).ok
    THEN InvalidParams("invalid public key: " \o ParseKey(req.PublicKey).err, Nil)
    ELSE NoErr

\* The checks the three validators share (server.go:131-146, 177-190, 288-303).
validatePublicKey(req) ==
    IF req = Nil THEN InvalidParams("request body required", Nil)
    ELSE IF req.PublicKey = "" THEN InvalidParams("public key is required", Nil)
    ELSE IF Len(req.PublicKey) # 44 THEN InvalidParams("malformed public key", Nil)
    ELSE IF ~ParseKey(req.PublicKey).ok
    THEN InvalidParams("invalid public key: " \o ParseKey(req.PublicKey).err, Nil)
    ELSE NoErr

validateGetPeerRequest(req) == validatePublicKey(req)

validateRemovePeerRequest(req) == validatePublicKey(req)

validatePresharedKey(psk) ==
    IF psk = "" THEN NoErr
    ELSE IF Len(psk) # 44 THEN InvalidParams("malformed preshared key", Nil)
    ELSE IF ~ParseKey(psk).ok
    THEN InvalidParams("invalid preshared key: " \o ParseKey(psk).err, Nil)
    ELSE NoErr

validateEndpoint(ep) ==
    IF ep # "" /\ ~ResolveUDPAddr(ep).ok
    THEN InvalidParams("invalid endpoint: " \o ResolveUDPAddr(ep).err, Nil)
    ELSE NoErr

validateKeepAlive(ka) ==
    IF ka # "" /\ ~ParseDuration(ka).ok
    THEN InvalidParams("invalid keepalive: " \o ParseDuration(ka).err, Nil)
    ELSE NoErr

\* The loop over req.AllowedIPs: the first malformed range is reported.
RECURSIVE validateAllowedIPs(_)
validateAllowedIPs(ips) ==
    IF ips = <<>> THEN NoErr
    ELSE IF ~ParseCIDR(Head(ips)).ok
    THEN InvalidParams("range \"" \o Head(ips) \o "\" is not valid: "
                            \o ParseCIDR(Head(ips)).err, Nil)
    ELSE validateAllowedIPs(Tail(ips))

\* validateAddPeerRequest without the loop over the allowed IPs.
validateAddPeerRequestNoCIDR(req) ==
    IF validatePublicKey(req) # NoErr THEN validatePublicKey(req)
    ELSE IF validatePresharedKey(req.PresharedKey) # NoErr
    THEN validatePresharedKey(req.PresharedKey)
    ELSE IF validateEndpoint(req.Endpoint) # NoErr
    THEN validateEndpoint(req.Endpoint)
    ELSE validateKeepAlive(req.PersistentKeepAlive)

validateAddPeerRequest(req) ==
    IF validatePublicKey(req) # NoErr THEN validatePublicKey(req)
    ELSE IF validatePresharedKey(req.PresharedKey) # NoErr
    THEN validatePresharedKey(req.PresharedKey)
    ELSE IF validateEndpoint(req.Endpoint) # NoErr
    THEN validateEndpoint(req.Endpoint)
    ELSE IF validateKeepAlive(req.PersistentKeepAlive) # NoErr
    THEN validateKeepAlive(req.PersistentKeepAlive)
    ELSE validateAllowedIPs(req.AllowedIPs)

\* The second loop over req.AllowedIPs (server.go:270-277): the networks,
\* or the error of the first range that does not parse.
RECURSIVE parseAllowedIPs(_)
parseAllowedIPs(ips) ==
    IF ips = <<>> THEN [err |-> NoErr, nets |-> <<>>]
    ELSE IF ~ParseCIDR(Head(ips)).ok
    THEN [err |-> InvalidParams("range \"" \o Head(ips) \o "\" is not valid: "
                                    \o ParseCIDR(Head(ips)).err, Nil),
          nets |-> <<>>]
    ELSE LET rest == parseAllowedIPs(Tail(ips))
         IN [err |-> rest.err,
             nets |-> IF rest.err = NoErr
                      THEN <<ParseCIDR(Head(ips)).net>> \o rest.nets
                      ELSE <<>>]

\* AddPeer after validation (server.go:236-284): the request is parsed a
\* second time into the PeerConfig, each parse with its own error return.
AddPeerConfigure(dev, req, cfgOK) ==
    IF ~ParseKey(req.PublicKey).ok
    THEN Result(Nil, InvalidParams("invalid public key: "
                    \o ParseKey(req.PublicKey).err, Nil), <<>>, <<>>, dev)
    ELSE IF req.PresharedKey # "" /\ ~ParseKey(req.PresharedKey).ok
    THEN Result(Nil, InvalidParams("invalid preshared key: "
                    \o ParseKey(req.PresharedKey).err, Nil), <<>>, <<>>, dev)
    ELSE IF req.Endpoint # "" /\ ~ResolveUDPAddr(req.Endpoint).ok
    THEN Result(Nil, InvalidParams("invalid endpoint: "
                    \o ResolveUDPAddr(req.Endpoint).err, Nil), <<>>, <<>>, dev)
    ELSE IF req.PersistentKeepAlive # "" /\ ~ParseDuration(req.PersistentKeepAlive).ok
    THEN Result(Nil, InvalidParams("invalid keepalive: "
                    \o ParseDuration(req.PersistentKeepAlive).err, Nil),
                <<>>, <<>>, dev)
    ELSE IF parseAllowedIPs(req.AllowedIPs).err # NoErr
    THEN Result(Nil, parseAllowedIPs(req.AllowedIPs).err, <<>>, <<>>, dev)
    ELSE
      LET peer ==
            [PeerConfig(ParseKey(req.PublicKey).key) EXCEPT
               !.PresharedKey =
                   IF req.PresharedKey # ""
                   THEN Some(ParseKey(req.PresharedKey).key) ELSE Unset,
               !.Endpoint =
                   IF req.Endpoint # ""
                   THEN Some(ResolveUDPAddr(req.Endpoint).addr) ELSE Unset,
               !.PersistentKeepaliveInterval =
                   IF req.PersistentKeepAlive # ""
                   THEN Some(ParseDuration(req.PersistentKeepAlive).d) ELSE Unset,
               !.AllowedIPs = parseAllowedIPs(req.AllowedIPs).nets]
      IN Result(IF cfgOK THEN [OK |-> TRUE] ELSE Nil,
                IF cfgOK THEN NoErr ELSE ErrorString(ErrConfigure),
                <<"ConfigureDevice">>, <<peer>>,
                ConfigureDevice(dev, peer, cfgOK))

\* Server.AddPeer without the ValidateOnly return of server.go:232-234.
ServerAddPeerNoShortCircuit(dev, req, cfgOK) ==
    IF validateAddPeerRequest(req) # NoErr
    THEN Result(Nil, validateAddPeerRequest(req), <<>>, <<>>, dev)
    ELSE AddPeerConfigure(dev, req, cfgOK)

ServerAddPeer(dev, req, cfgOK) ==
    IF validateAddPeerRequest(req) # NoErr
    THEN Result(Nil, validateAddPeerRequest(req), <<>>, <<>>, dev)
    ELSE IF req.ValidateOnly
    THEN Result([OK |-> FALSE], NoErr, <<>>, <<>>, dev)
    ELSE AddPeerConfigure(dev, req, cfgOK)

ServerRemovePeer(dev, req, cfgOK) ==
    IF validateRemovePeerRequest(req) # NoErr
    THEN Result(Nil, validateRemovePeerRequest(req), <<>>, <<>>, dev)
    ELSE IF req.ValidateOnly
    THEN Result([OK |-> FALSE], NoErr, <<>>, <<>>, dev)
    ELSE IF ~ParseKey(req.PublicKey).ok
    THEN Result(Nil, ErrorString("invalid public key: "
                    \o ParseKey(req.PublicKey).err), <<>>, <<>>, dev)
    ELSE
      LET peer == [PeerConfig(ParseKey(req.PublicKey).key) EXCEPT !.Remove = TRUE]
      IN Result(IF cfgOK THEN [OK |-> TRUE] ELSE Nil,
                IF cfgOK THEN NoErr ELSE ErrorString(ErrConfigure),
                <<"ConfigureDevice">>, <<peer>>,
                ConfigureDevice(dev, peer, cfgOK))

\* peer2rpc (server.go:106-128).
peer2rpc(peer) ==
    [PublicKey |-> KeyString(peer.PublicKey),
     HasPresharedKey |-> peer.PresharedKey # KeyZero,
     Endpoint |-> peer.Endpoint,
     PersistentKeepAlive |->
         IF peer.Keepalive > 0 THEN DurationString(peer.Keepalive) ELSE "",
     LastHandshake |-> peer.LastHandshakeTime,
     AllowedIPs |-> peer.AllowedIPs]

ServerGetPeer(dev, req, devOK) ==
    IF validateGetPeerRequest(req) # NoErr
    THEN Result(Nil, validateGetPeerRequest(req), <<>>, <<>>, dev)
    ELSE IF ~devOK
    THEN Result(Nil, ErrorString(ErrDevice), <<"Device">>, <<>>, dev)
    ELSE IF ~ParseKey(req.PublicKey).ok
    THEN Result(Nil, InvalidParams("invalid public key: "
                    \o ParseKey(req.PublicKey).err, Nil), <<"Device">>, <<>>, dev)
    ELSE IF ParseKey(req.PublicKey).key \in PeerKeys(dev)
    THEN Result([Peer |-> peer2rpc(dev[PeerIndex(dev, ParseKey(req.PublicKey).key)])],
                NoErr, <<"Device">>, <<>>, dev)
    ELSE Result([Peer |-> Nil], NoErr, <<"Device">>, <<>>, dev)

ServerListPeers(dev, devOK) ==
    IF ~devOK
    THEN Result(Nil, ErrorString(ErrDevice), <<"Device">>, <<>>, dev)
    ELSE Result([Peers |-> [i \in 1..Len(dev) |-> peer2rpc(dev[i])]],
                NoErr, <<"Device">>, <<>>, dev)

ServerGetDeviceInfo(dev, devOK) ==
    IF ~devOK
    THEN Result(Nil, ErrorString(ErrDevice), <<"Device">>, <<>>, dev)
    ELSE Result([Device |-> [Name |-> DeviceName, Type |-> "Linux kernel",
                             PublicKey |-> KeyString(KeyThree),
                             ListenPort |-> ListenPort, FirewallMark |-> 0,
                             NumPeers |-> Len(dev)]],
                NoErr, <<"Device">>, <<>>, dev)

(***************************************************************************)
(* server.go:30-47, New.  `server` is read and never assigned, so every    *)
(* call takes the first branch and constructs a client.                    *)
(*   [s, err, calls, created]: the handle, the error, the wgctrl calls     *)
(*   made and the number of clients constructed.                           *)
(***************************************************************************)
ErrNoClient == "wgctrl: no compatible implementation"
ErrEnvNotSet == [kind |-> "Error", Code |-> 0,
                 Message |-> "env var WG_DEVICE_NAME not set.", Data |-> Nil]

New(srv, env, id, newOK, devOK) ==
    IF srv # Nil
    THEN [s |-> srv, err |-> NoErr, calls |-> <<>>, created |-> 0]
    ELSE IF ~newOK
    THEN [s |-> Nil, err |-> ErrorString(ErrNoClient),
          calls |-> <<"wgctrl.New">>, created |-> 0]
    ELSE IF env = ""
    THEN [s |-> Nil, err |-> ErrEnvNotSet,
          calls |-> <<"wgctrl.New">>, created |-> 1]
    ELSE IF env # DeviceName \/ ~devOK
    THEN [s |-> Nil, err |-> ErrorString("file does not exist"),
          calls |-> <<"wgctrl.New", "Device">>, created |-> 1]
    ELSE [s |-> [wg |-> id, deviceName |-> DeviceName], err |-> NoErr,
          calls |-> <<"wgctrl.New", "Device">>, created |-> 1]

(***************************************************************************)
(* part_000: Enabeled, updatePeerCall, UpdatePeer.                         *)
(***************************************************************************)
Enabeled(env) == env # ""

\* model.Peer, as far as this package reads it.
ModelPeer(pk, psk, ips) ==
    [PublicKey |-> pk, PresharedKey |-> psk, AllowedIPs |-> ips]

\* updatePeerCall leaving the preshared key out of the AddPeerRequest.
updatePeerCallNoPresharedKey(srv, env, id, dev, peer, enable, newOK, devOK, cfgOK) ==
    LET n == New(srv, env, id, newOK, devOK)
        r == IF enable
             THEN ServerAddPeer(dev,
                      AddPeerRequest(peer.PublicKey, "", "", "",
                                     peer.AllowedIPs, FALSE), cfgOK)
             ELSE ServerRemovePeer(dev,
                      RemovePeerRequest(peer.PublicKey, FALSE), cfgOK)
    IN IF n.err # NoErr
       THEN [resp |-> Nil, err |-> n.err, calls |-> n.calls, cfgs |-> <<>>,
             dev |-> dev, created |-> n.created]
       ELSE IF r.err # NoErr
       THEN [resp |-> Nil, err |-> r.err, calls |-> n.calls \o r.calls,
             cfgs |-> r.cfgs, dev |-> r.dev, created |-> n.created]
       ELSE [resp |-> [OK |-> r.resp.OK], err |-> NoErr,
             calls |-> n.calls \o r.calls, cfgs |-> r.cfgs, dev |-> r.dev,
             created |-> n.created]

\* [resp, err, calls, cfgs, dev, created]
updatePeerCall(srv, env, id, dev, peer, enable, newOK, devOK, cfgOK) ==
    LET n == New(srv, env, id, newOK, devOK)
        r == IF enable
             THEN ServerAddPeer(dev,
                      AddPeerRequest(peer.PublicKey, peer.PresharedKey, "", "",
                                     peer.AllowedIPs, FALSE), cfgOK)
             ELSE ServerRemovePeer(dev,
                      RemovePeerRequest(peer.PublicKey, FALSE), cfgOK)
    IN IF n.err # NoErr
       THEN [resp |-> Nil, err |-> n.err, calls |-> n.calls, cfgs |-> <<>>,
             dev |-> dev, created |-> n.created]
       ELSE IF r.err # NoErr
       THEN [resp |-> Nil, err |-> r.err, calls |-> n.calls \o r.calls,
             cfgs |-> r.cfgs, dev |-> r.dev, created |-> n.created]
       ELSE [resp |-> [OK |-> r.resp.OK], err |-> NoErr,
             calls |-> n.calls \o r.calls, cfgs |-> r.cfgs, dev |-> r.dev,
             created |-> n.created]

\* core.UpdatePeer, the fallback: it answers or fails, and does not go
\* through this package's client.
coreUpdatePeer(dev, ok) ==
    [resp |-> IF ok THEN [OK |-> TRUE] ELSE Nil,
     err |-> IF ok THEN NoErr ELSE ErrorString("core: update failed"),
     calls |-> <<"core.UpdatePeer">>, cfgs |-> <<>>, dev |-> dev,
     created |-> 0]

UpdatePeerCall(srv, env, id, dev, peer, enable, newOK, devOK, cfgOK, coreOK) ==
    IF Enabeled(env)
    THEN updatePeerCall(srv, env, id, dev, peer, enable, newOK, devOK, cfgOK)
    ELSE coreUpdatePeer(dev, coreOK)

(***************************************************************************)
(* part_000:35-59, readInterfaceStatus.  New's error is dropped; with a    *)
(* nil handle s.GetDeviceInfo() dereferences s and the handler panics      *)
(* before it writes a response.                                            *)
(*   [http, calls, created]                                                *)
(***************************************************************************)
HttpJSON(status, body) == [status |-> status, body |-> body]
HttpPanic == [panic |-> "invalid memory address or nil pointer dereference"]

readInterfaceStatusCall(srv, env, id, dev, newOK, devOK, infoOK) ==
    LET n == New(srv, env, id, newOK, devOK)
        st == ServerGetDeviceInfo(dev, infoOK)
    IN IF n.s = Nil
       THEN [http |-> HttpPanic, calls |-> n.calls, created |-> n.created]
       ELSE IF st.err # NoErr
       THEN [http |-> HttpJSON(500, ErrorText(st.err)),
             calls |-> n.calls \o st.calls, created |-> n.created]
       ELSE [http |-> HttpJSON(200,
                 [Name |-> st.resp.Device.Name,
                  DeviceType |-> st.resp.Device.Type,
                  ListenPort |-> st.resp.Device.ListenPort,
                  NumberOfPeers |-> st.resp.Device.NumPeers,
                  PublicKey |-> st.resp.Device.PublicKey]),
             calls |-> n.calls \o st.calls, created |-> n.created]

(***************************************************************************)
(* The inputs of the handlers.  A request varies one field at a time       *)
(* around a valid one; FullRequest sets every field.                       *)
(***************************************************************************)
GoodEndpoint == "192.0.2.1:51820"

FieldVariants ==
    {AddPeerRequest(pk, "", "", "", <<>>, FALSE) : pk \in KeyStrings}
    \cup {AddPeerRequest(KeyString(KeyOne), psk, "", "", <<>>, FALSE) :
            psk \in {KeyString(KeyTwo), KeyShort, KeyUnpadded, KeyNewline}}
    \cup {AddPeerRequest(KeyString(KeyOne), "", ep, ka, <<>>, FALSE) :
            ep \in EndpointStrings \ {GoodEndpoint},
            ka \in KeepAliveStrings \ {"25s"}}
    \cup {AddPeerRequest(KeyString(KeyOne), "", "", "", ips, FALSE) :
            ips \in {<<"10.0.0.77/24", "fd00::2/128">>,
                     <<"10.0.0.2">>, <<"10.0.0.2/32", "10.0.0.2/33">>}}
    \cup {AddPeerRequest(KeyString(KeyTwo), KeyString(KeyTwo), GoodEndpoint,
                         "25s", <<"10.0.0.2/32">>, FALSE)}

AddPeerRequests ==
    {Nil} \cup {[r EXCEPT !.ValidateOnly = vo] : r \in FieldVariants, vo \in BOOLEAN}

RemovePeerRequests ==
    {Nil} \cup {RemovePeerRequest(pk, vo) : pk \in KeyStrings, vo \in BOOLEAN}

GetPeerRequests == {Nil} \cup {GetPeerRequest(pk) : pk \in KeyStrings}

ModelPeers ==
    {ModelPeer(pk, "", <<>>) :
        pk \in {KeyString(KeyOne), KeyOneLoose, KeyString(KeyTwo), "", KeyLong}}
    \cup {ModelPeer(KeyString(KeyOne), psk, ips) :
            psk \in {KeyString(KeyTwo), KeyShort},
            ips \in {<<"10.0.0.77/24">>, <<"10.0.0.2">>}}
    \cup {ModelPeer(KeyString(KeyTwo), "", <<"10.0.0.77/24", "fd00::2/128">>)}

(***************************************************************************)
(* The state machine.                                                      *)
(***************************************************************************)
\* The clock's first reading.
NowBase == 40

Min(a, b) == IF a < b THEN a ELSE b

Trace(op, req, resp, err, calls, cfgs, http) ==
    [op |-> op, req |-> req, resp |-> resp, err |-> err, calls |-> calls,
     cfgs |-> cfgs, http |-> http]

InitTrace == Trace("init", Nil, Nil, NoErr, <<>>, <<>>, Nil)

Init ==
    /\ deviceNameEnv = DeviceName
    /\ server = Nil
    /\ nClients = 0
    /\ devPeers = <<>>
    /\ now = NowBase
    /\ trace = InitTrace

\* Each handler is one action; `fault` names the collaborator call that
\* fails during it, if any.
\* Server.AddPeer on a handle of the device.
AddPeer ==
    \E req \in AddPeerRequests, fault \in {"none", "ConfigureDevice"} :
        LET r == ServerAddPeer(devPeers, req, fault # "ConfigureDevice")
        IN /\ devPeers' = r.dev
           /\ trace' = Trace("AddPeer", req, r.resp, r.err, r.calls, r.cfgs, Nil)
           /\ UNCHANGED <<deviceNameEnv, server, nClients, now>>

\* Server.RemovePeer on a handle of the device.
RemovePeer ==
    \E req \in RemovePeerRequests, fault \in {"none", "ConfigureDevice"} :
        LET r == ServerRemovePeer(devPeers, req, fault # "ConfigureDevice")
        IN /\ devPeers' = r.dev
           /\ trace' = Trace("RemovePeer", req, r.resp, r.err, r.calls, r.cfgs, Nil)
           /\ UNCHANGED <<deviceNameEnv, server, nClients, now>>

\* Server.GetPeer on a handle of the device.
GetPeer ==
    \E req \in GetPeerRequests, fault \in {"none", "Device"} :
        LET r == ServerGetPeer(devPeers, req, fault # "Device")
        IN /\ devPeers' = r.dev
           /\ trace' = Trace("GetPeer", req, r.resp, r.err, r.calls, r.cfgs, Nil)
           /\ UNCHANGED <<deviceNameEnv, server, nClients, now>>

Next ==
    \/ AddPeer
    \/ RemovePeer
    \/ GetPeer

Spec == Init /\ [][Next]_vars

(***************************************************************************)
(* SpecApi: the entry points of part_000 that go through New().  nClients  *)
(* counts the clients constructed, up to MaxClients.                       *)
(***************************************************************************)
InitApi ==
    /\ deviceNameEnv \in {"", DeviceName, "wg1"}
    /\ server = Nil
    /\ nClients = 0
    /\ devPeers = <<>>
    /\ now = NowBase
    /\ trace = InitTrace

\* New(), as every handler of part_000 calls it.
CallNew ==
    \E fault \in {"none", "wgctrl.New", "New.Device"} :
        LET n == New(server, deviceNameEnv, Min(nClients + 1, MaxClients),
                     fault # "wgctrl.New", fault # "New.Device")
        IN /\ nClients' = Min(nClients + n.created, MaxClients)
           /\ trace' = Trace("New", Nil, n.s, n.err, n.calls, <<>>, Nil)
           /\ UNCHANGED <<deviceNameEnv, server, devPeers, now>>

UpdatePeer ==
    \E peer \in ModelPeers, enable \in BOOLEAN,
       fault \in {"none", "wgctrl.New", "New.Device", "ConfigureDevice",
                  "core.UpdatePeer"} :
        LET r == UpdatePeerCall(server, deviceNameEnv,
                                Min(nClients + 1, MaxClients), devPeers,
                                peer, enable, fault # "wgctrl.New",
                                fault # "New.Device", fault # "ConfigureDevice",
                                fault # "core.UpdatePeer")
        IN /\ nClients' = Min(nClients + r.created, MaxClients)
           /\ devPeers' = r.dev
           /\ trace' = Trace("UpdatePeer",
                             [peer |-> peer, enable |-> enable, fault |-> fault],
                             r.resp, r.err, r.calls, r.cfgs, Nil)
           /\ UNCHANGED <<deviceNameEnv, server, now>>

\* GET /status/enabled
ReadEnabled ==
    /\ trace' = Trace("readEnabled", Nil, Nil, NoErr, <<>>, <<>>,
                      HttpJSON(200, Enabeled(deviceNameEnv)))
    /\ UNCHANGED <<deviceNameEnv, server, nClients, devPeers, now>>

\* GET /status/interface
ReadInterfaceStatus ==
    \E fault \in {"none", "wgctrl.New", "New.Device", "Device"} :
        LET r == readInterfaceStatusCall(server, deviceNameEnv,
                                         Min(nClients + 1, MaxClients), devPeers,
                                         fault # "wgctrl.New",
                                         fault # "New.Device", fault # "Device")
        IN /\ nClients' = Min(nClients + r.created, MaxClients)
           /\ trace' = Trace("readInterfaceStatus", Nil, Nil, NoErr, r.calls,
                             <<>>, r.http)
           /\ UNCHANGED <<deviceNameEnv, server, devPeers, now>>

NextApi ==
    \/ CallNew
    \/ UpdatePeer
    \/ ReadEnabled
    \/ ReadInterfaceStatus

SpecApi == InitApi /\ [][NextApi]_vars

(***************************************************************************)
(* part_000:74-129, clientStatus.                                          *)
(***************************************************************************)
\* Go's integer division and remainder truncate toward zero.
GoDiv(a, b) == IF a >= 0 THEN a \div b ELSE -((-a) \div b)
GoRem(a, b) == a - b * GoDiv(a, b)

\* time.Since(t) at clock reading `clock`: Time.Sub, which saturates at the
\* largest and the smallest Duration.
Since(clock, t) ==
    IF clock - t > MaxDuration THEN MaxDuration
    ELSE IF clock - t < -MaxDuration THEN -MaxDuration
    ELSE clock - t

\* Duration.Minutes(): whole minutes plus the remainder as a fraction of a
\* minute, [whole, rem] standing for whole + rem / Minute.
Minutes(d) == [whole |-> GoDiv(d, Minute), rem |-> GoRem(d, Minute)]

\* The minutes of `Minutes() < 3` (part_000:93).
ConnectedMinutes == 3

\* m < n for m = whole + rem / Minute and an integer n.
MinutesLess(m, n) == m.whole * Minute + m.rem < n * Minute

\* `Minutes() <= 3` in place of `Minutes() < 3`.
peerActiveInclusive(d) ==
    Minutes(d).whole * Minute + Minutes(d).rem <= ConnectedMinutes * Minute

peerActive(d) == MinutesLess(Minutes(d), ConnectedMinutes)

\* The registry loop without its break: the last matching client wins.
RECURSIVE clientDetailsNoBreak(_, _, _)
clientDetailsNoBreak(clients, publicKey, dflt) ==
    IF clients = <<>> THEN dflt
    ELSE IF Head(clients).PublicKey # publicKey
    THEN clientDetailsNoBreak(Tail(clients), publicKey, dflt)
    ELSE clientDetailsNoBreak(Tail(clients), publicKey,
             [Name |-> Head(clients).Name, Email |-> Head(clients).Email])

\* The registry loop (part_000:109-119): the first client with the peer's
\* public key gives the name and the e-mail.
RECURSIVE clientDetails(_, _, _)
clientDetails(clients, publicKey, dflt) ==
    IF clients = <<>> THEN dflt
    ELSE IF Head(clients).PublicKey # publicKey
    THEN clientDetails(Tail(clients), publicKey, dflt)
    ELSE [Name |-> Head(clients).Name, Email |-> Head(clients).Email]

newClientStatus(peer, clock, withClientDetails, clients) ==
    LET unknown == [Name |-> "UNKNOWN", Email |-> "UNKNOWN"]
        who == IF withClientDetails
               THEN clientDetails(clients, peer.PublicKey, unknown)
               ELSE unknown
    IN [PublicKey |-> peer.PublicKey,
        HasPresharedKey |-> peer.HasPresharedKey,
        Name |-> who.Name,
        Email |-> who.Email,
        Connected |-> peerActive(Since(clock, peer.LastHandshake)),
        AllowedIPs |-> peer.AllowedIPs,
        Endpoint |-> peer.Endpoint,
        LastHandshake |-> peer.LastHandshake,
        LastHandshakeRelative |-> Since(clock, peer.LastHandshake)]

\* Ordering by the handshake time in place of the time since it.
lessHandshake(a, b) == a.LastHandshake < b.LastHandshake

\* The comparison given to sort.Slice (part_000:124-126).
lessRelative(a, b) == a.LastHandshakeRelative < b.LastHandshakeRelative

\* sort.Slice on fewer than 12 elements is an insertion sort: each element
\* moves left while it is less than its left neighbour.
RECURSIVE insertLeft(_, _)
insertLeft(s, j) ==
    IF j > 1 /\ lessRelative(s[j], s[j - 1])
    THEN insertLeft([s EXCEPT ![j] = s[j - 1], ![j - 1] = s[j]], j - 1)
    ELSE s

RECURSIVE insertionSort(_, _)
insertionSort(s, i) ==
    IF i > Len(s) THEN s ELSE insertionSort(insertLeft(s, i), i + 1)

sortSlice(s) == insertionSort(s, 2)

\* clock[i]: the clock reading in the i-th iteration of the loop.
\* [list, err, calls, created]
clientStatus(srv, env, id, dev, clock, clients, newOK, devOK, listOK, readOK) ==
    LET n == New(srv, env, id, newOK, devOK)
        st == ServerListPeers(dev, listOK)
    IN IF n.err # NoErr
       THEN [list |-> <<>>, err |-> n.err, calls |-> n.calls,
             created |-> n.created]
       ELSE IF st.err # NoErr
       THEN [list |-> <<>>, err |-> st.err, calls |-> n.calls \o st.calls,
             created |-> n.created]
       ELSE [list |-> sortSlice([i \in 1..Len(st.resp.Peers) |->
                          newClientStatus(st.resp.Peers[i], clock[i],
                                          readOK, clients)]),
             err |-> NoErr,
             calls |-> n.calls \o st.calls \o <<"core.ReadClients">>,
             created |-> n.created]

\* part_000:61-72, readClientStatus.
readClientStatusCall(r) ==
    IF r.err # NoErr THEN HttpJSON(500, ErrorText(r.err))
    ELSE HttpJSON(200, r.list)

(***************************************************************************)
(* SpecStatus: GET /status/clients against devices whose peers have        *)
(* handshake histories, while the clock runs.                              *)
(***************************************************************************)
\* The device's peers are the first peers of this list.
StatusKeys == <<KeyOne, KeyTwo, KeyZero, KeyThree>>

\* Handshake times: never (the zero Time), and one tick less than three
\* minutes and three minutes before the clock's first reading.
HandshakeTimes ==
    {0, NowBase - (ConnectedMinutes * Minute - 1),
     NowBase - ConnectedMinutes * Minute}

StatusPeer(k, psk, t) ==
    [PublicKey |-> k, PresharedKey |-> psk, Endpoint |-> "<nil>",
     Keepalive |-> 0, LastHandshakeTime |-> t, AllowedIPs |-> <<>>]

RegistryClient(pk, name) ==
    [PublicKey |-> pk, Name |-> name, Email |-> name \o "@example.org"]

\* core.ReadClients: what the registry holds.
Registries ==
    {<<>>,
     <<RegistryClient(KeyString(KeyTwo), "bob"),
       RegistryClient(KeyString(KeyOne), "alice"),
       RegistryClient(KeyString(KeyOne), "carol")>>,
     <<RegistryClient(KeyOneLoose, "dave")>>}

InitStatus ==
    /\ deviceNameEnv \in {"", DeviceName}
    /\ server = Nil
    /\ nClients = 0
    /\ now = NowBase
    /\ trace = InitTrace
    /\ \E n \in 0..Min(MaxPeers, Len(StatusKeys)) :
        \E t \in [1..n -> HandshakeTimes] :
            devPeers = [i \in 1..n |->
                          StatusPeer(StatusKeys[i],
                                     IF i = 1 THEN KeyTwo ELSE KeyZero, t[i])]

Tick ==
    /\ now < NowBase + MaxTicks
    /\ now' = now + 1
    /\ trace' = [InitTrace EXCEPT !.op = "tick"]
    /\ UNCHANGED <<deviceNameEnv, server, nClients, devPeers>>

\* GET /status/clients.  The clock may tick once while the loop runs:
\* before iteration j (j = 0: not at all).  The registry and the tick are
\* inputs only of a call that reaches the loop.
ReadClientStatus ==
    \E fault \in {"none", "wgctrl.New", "New.Device", "Device", "core.ReadClients"},
       clients \in Registries, j \in 0..Len(devPeers) :
        LET clock == [i \in 1..Len(devPeers) |->
                        IF j # 0 /\ i >= j THEN now + 1 ELSE now]
            r == clientStatus(server, deviceNameEnv,
                              Min(nClients + 1, MaxClients), devPeers, clock,
                              clients, fault # "wgctrl.New",
                              fault # "New.Device", fault # "Device",
                              fault # "core.ReadClients")
        IN /\ fault \in {"none", "core.ReadClients"} \/ (j = 0 /\ clients = <<>>)
           /\ now' = IF j # 0 /\ r.err = NoErr THEN now + 1 ELSE now
           /\ now' <= NowBase + MaxTicks
           /\ nClients' = Min(nClients + r.created, MaxClients)
           /\ trace' = Trace("readClientStatus",
                             [clients |-> clients, fault |-> fault,
                              peers |-> devPeers],
                             r.list, r.err, r.calls, <<>>,
                             readClientStatusCall(r))
           /\ UNCHANGED <<deviceNameEnv, server, devPeers>>

NextStatus ==
    \/ Tick
    \/ ReadClientStatus

SpecStatus == InitStatus /\ [][NextStatus]_vars

(***************************************************************************)
(* SpecErr: the constructors of part_001 applied to messages and codes.    *)
(***************************************************************************)
Messages == {"", "boom"}

\* The codes reserved for server errors, and the codes ServerError is given.
ServerCodeLow == -32099
ServerCodeHigh == -32000
Codes == (ServerCodeLow - CodeSlack)..(ServerCodeHigh + CodeSlack)

Constructed(op, code, err) ==
    Trace(op, [code |-> code], Nil, err, <<>>, <<>>, Nil)

MakeParseError ==
    \E m \in Messages :
        /\ trace' = Constructed("ParseError", 0, ParseError(m, Nil))
        /\ UNCHANGED <<deviceNameEnv, server, nClients, devPeers, now>>

MakeInvalidRequest ==
    \E m \in Messages :
        /\ trace' = Constructed("InvalidRequest", 0, InvalidRequest(m, Nil))
        /\ UNCHANGED <<deviceNameEnv, server, nClients, devPeers, now>>

MakeMethodNotFound ==
    \E m \in Messages :
        /\ trace' = Constructed("MethodNotFound", 0, MethodNotFound(m, Nil))
        /\ UNCHANGED <<deviceNameEnv, server, nClients, devPeers, now>>

MakeInvalidParams ==
    \E m \in Messages :
        /\ trace' = Constructed("InvalidParams", 0, InvalidParams(m, Nil))
        /\ UNCHANGED <<deviceNameEnv, server, nClients, devPeers, now>>

MakeInternalError ==
    \E m \in Messages :
        /\ trace' = Constructed("InternalError", 0, InternalError(m, Nil))
        /\ UNCHANGED <<deviceNameEnv, server, nClients, devPeers, now>>

MakeServerError ==
    \E m \in Messages, code \in Codes :
        /\ trace' = Constructed("ServerError", code, ServerError(code, m, Nil))
        /\ UNCHANGED <<deviceNameEnv, server, nClients, devPeers, now>>

NextErr ==
    \/ MakeParseError
    \/ MakeInvalidRequest
    \/ MakeMethodNotFound
    \/ MakeInvalidParams
    \/ MakeInternalError
    \/ MakeServerError

SpecErr == Init /\ [][NextErr]_vars

(***************************************************************************)
(* The properties.  A request is judged here by what the parsers say of    *)
(* its fields, not by the validators.                                      *)
(***************************************************************************)
Mutated(t) == "ConfigureDevice" \in SeqToSet(t.calls) \/ t.cfgs # <<>>

MalformedKey(s) == Len(s) # 44 \/ ~ParseKey(s).ok

RequestInvalid(op, req) ==
    \/ req = Nil
    \/ MalformedKey(req.PublicKey)
    \/ /\ op = "AddPeer"
       /\ \/ req.PresharedKey # "" /\ MalformedKey(req.PresharedKey)
          \/ req.Endpoint # "" /\ ~ResolveUDPAddr(req.Endpoint).ok
          \/ req.PersistentKeepAlive # "" /\ ~ParseDuration(req.PersistentKeepAlive).ok
          \/ \E i \in 1..Len(req.AllowedIPs) : ~ParseCIDR(req.AllowedIPs[i]).ok

\* C1: an AddPeer or RemovePeer request with ValidateOnly set never reaches
\* ConfigureDevice and leaves the device's peers as they were; when the
\* request is valid the call returns no error.
C1_ValidateOnlyNoMutation ==
    [][(/\ trace'.op \in {"AddPeer", "RemovePeer"}
        /\ trace'.req # Nil
        /\ trace'.req.ValidateOnly)
       => /\ ~Mutated(trace')
          /\ devPeers' = devPeers
          /\ (~RequestInvalid(trace'.op, trace'.req) => trace'.err = NoErr)]_vars

C1_Witness ==
    /\ trace.op = "AddPeer"
    /\ trace.req # Nil
    /\ trace.req.ValidateOnly
    /\ trace.err = NoErr
    /\ devPeers # <<>>
    /\ ParseKey(trace.req.PublicKey).key \notin PeerKeys(devPeers)

\* C2: an AddPeer or RemovePeer request that fails validation is answered
\* with an InvalidParams error (code -32602) carrying a message, never
\* reaches ConfigureDevice and leaves the device's peers as they were.
C2_InvalidRequestRejected ==
    [][(/\ trace'.op \in {"AddPeer", "RemovePeer"}
        /\ RequestInvalid(trace'.op, trace'.req))
       => /\ trace'.err.kind = "Error"
          /\ trace'.err.Code = -32602
          /\ trace'.err.Message # ""
          /\ ~Mutated(trace')
          /\ devPeers' = devPeers]_vars

C2_Witness ==
    /\ trace.op = "AddPeer"
    /\ trace.req # Nil
    /\ trace.req.AllowedIPs = <<"10.0.0.2/32", "10.0.0.2/33">>
    /\ trace.err.kind = "Error"
    /\ trace.err.Code = -32602
    /\ devPeers # <<>>

\* C3 as claimed: a request to AddPeer, RemovePeer or GetPeer whose public
\* key, or (AddPeer) whose preshared key, is not 44 characters long is
\* rejected with an error and never reaches ConfigureDevice.
C3_KeysNot44Rejected ==
    (/\ trace.op \in {"AddPeer", "RemovePeer", "GetPeer"}
     /\ trace.req # Nil
     /\ \/ Len(trace.req.PublicKey) # 44
        \/ trace.op = "AddPeer" /\ Len(trace.req.PresharedKey) # 44)
    => (trace.err # NoErr /\ ~Mutated(trace))

\* C3 as amended: the same, for a preshared key that is given (not empty)
\* and not 44 characters long; an empty preshared key is accepted.
C3_GivenKeysNot44Rejected ==
    (/\ trace.op \in {"AddPeer", "RemovePeer", "GetPeer"}
     /\ trace.req # Nil
     /\ \/ Len(trace.req.PublicKey) # 44
        \/ /\ trace.op = "AddPeer"
           /\ trace.req.PresharedKey # ""
           /\ Len(trace.req.PresharedKey) # 44)
    => (trace.err # NoErr /\ ~Mutated(trace))

C3_Witness ==
    /\ trace.op = "AddPeer"
    /\ trace.req # Nil
    /\ ~trace.req.ValidateOnly
    /\ \/ trace.req.PresharedKey = KeyNewline
       \/ trace.req.PublicKey = KeyNewline
    /\ trace.err # NoErr

ClientStatusReturned == trace.op = "readClientStatus" /\ trace.err = NoErr

\* C4: for every entry clientStatus returns, Connected holds exactly when
\* LastHandshakeRelative is less than three minutes; a peer that never
\* shook hands is not connected.
C4_ConnectedIffWithinThreeMinutes ==
    ClientStatusReturned =>
        \A i \in 1..Len(trace.resp) :
            /\ trace.resp[i].Connected
                 <=> (trace.resp[i].LastHandshakeRelative < ConnectedMinutes * Minute)
            /\ trace.resp[i].LastHandshake = 0 => ~trace.resp[i].Connected

C4_Witness ==
    /\ ClientStatusReturned
    /\ \E i, j, k \in 1..Len(trace.resp) :
        /\ trace.resp[i].LastHandshakeRelative = ConnectedMinutes * Minute - 1
        /\ trace.resp[i].Connected
        /\ trace.resp[j].LastHandshakeRelative = ConnectedMinutes * Minute
        /\ ~trace.resp[j].Connected
        /\ trace.resp[k].LastHandshake = 0
        /\ ~trace.resp[k].Connected

\* C5: a successful clientStatus returns exactly one entry for each peer of
\* the device, in ascending order of LastHandshakeRelative.
C5_OneEntryPerPeerSorted ==
    ClientStatusReturned =>
        /\ Len(trace.resp) = Len(devPeers)
        /\ \A p \in 1..Len(devPeers) :
            Cardinality({i \in 1..Len(trace.resp) :
                trace.resp[i].PublicKey = KeyString(devPeers[p].PublicKey)}) = 1
        /\ \A i \in 1..(Len(trace.resp) - 1) :
            trace.resp[i].LastHandshakeRelative
                <= trace.resp[i + 1].LastHandshakeRelative

C5_Witness ==
    /\ ClientStatusReturned
    /\ Len(trace.resp) >= 3
    /\ trace.resp[1].PublicKey = KeyString(devPeers[3].PublicKey)
    /\ trace.resp[3].PublicKey = KeyString(devPeers[1].PublicKey)
    /\ trace.resp[1].LastHandshakeRelative < trace.resp[3].LastHandshakeRelative

\* C6: the registry never makes clientStatus fail: when New() and
\* ListPeers succeed, so does clientStatus.  When the read of the registry
\* fails, or no client has the peer's public key, Name and Email are
\* "UNKNOWN"; otherwise they are those of the first such client.
C6_RegistryOnlyEnriches ==
    (/\ trace.op = "readClientStatus"
     /\ deviceNameEnv = DeviceName
     /\ trace.req.fault \in {"none", "core.ReadClients"})
    => /\ trace.err = NoErr
       /\ Len(trace.resp) = Len(devPeers)
       /\ \A i \in 1..Len(trace.resp) :
            LET e == trace.resp[i]
                clients == trace.req.clients
                found == {k \in 1..Len(clients) :
                            clients[k].PublicKey = e.PublicKey}
                first == CHOOSE k \in found : \A m \in found : k <= m
            IN IF trace.req.fault = "core.ReadClients" \/ found = {}
               THEN e.Name = "UNKNOWN" /\ e.Email = "UNKNOWN"
               ELSE e.Name = clients[first].Name /\ e.Email = clients[first].Email

C6_Witness ==
    /\ ClientStatusReturned
    /\ trace.req.fault = "none"
    /\ \E i, j \in 1..Len(trace.resp) :
        /\ trace.resp[i].Name = "alice"
        /\ trace.resp[i].Email = "alice@example.org"
        /\ trace.resp[j].Name = "UNKNOWN"
        /\ Cardinality({k \in 1..Len(trace.req.clients) :
              trace.req.clients[k].PublicKey = trace.resp[i].PublicKey}) > 1

\* C7 as claimed: once New() has returned a handle, a later New() that
\* returns a handle returns that same one and constructs no further
\* control client.
C7_ClientConstructedOnce ==
    [][(/\ trace.op = "New"
        /\ trace.resp # Nil
        /\ trace'.op = "New"
        /\ trace'.err = NoErr)
       => /\ trace'.resp = trace.resp
          /\ nClients' = nClients]_vars

\* C8 as claimed: GET /status/interface ends with 200 and the device, or
\* with 500 and the error's text, also when New() fails.
C8_InterfaceStatus200Or500 ==
    trace.op = "readInterfaceStatus" =>
        /\ trace.http # HttpPanic
        /\ trace.http.status \in {200, 500}

ValidModelPeer(peer) ==
    /\ ~MalformedKey(peer.PublicKey)
    /\ peer.PresharedKey = "" \/ ~MalformedKey(peer.PresharedKey)
    /\ \A i \in 1..Len(peer.AllowedIPs) : ParseCIDR(peer.AllowedIPs[i]).ok

\* The PeerConfig an UpdatePeer of this peer is to hand to ConfigureDevice.
ExpectedConfig(peer, enable) ==
    IF enable
    THEN [PeerConfig(ParseKey(peer.PublicKey).key) EXCEPT
            !.PresharedKey =
                IF peer.PresharedKey = "" THEN Unset
                ELSE Some(ParseKey(peer.PresharedKey).key),
            !.AllowedIPs =
                [i \in 1..Len(peer.AllowedIPs) |->
                    ParseCIDR(peer.AllowedIPs[i]).net]]
    ELSE [PeerConfig(ParseKey(peer.PublicKey).key) EXCEPT !.Remove = TRUE]

OneMutation(t) ==
    /\ Count(t.calls, "ConfigureDevice") = 1
    /\ "core.UpdatePeer" \notin SeqToSet(t.calls)
    /\ t.cfgs = <<ExpectedConfig(t.req.peer, t.req.enable)>>

OnlyFallback(t) == t.calls = <<"core.UpdatePeer">> /\ t.cfgs = <<>>

\* C9 as claimed: with WG_DEVICE_NAME set, UpdatePeer of a valid peer issues
\* exactly one device mutation and no fallback call: an add of the peer's
\* public key, allowed IPs and preshared key, after which the device holds
\* the peer, or a removal, after which it does not; with WG_DEVICE_NAME
\* unset it only calls the fallback.
C9_UpdatePeerOneMutation ==
    (trace.op = "UpdatePeer" /\ ValidModelPeer(trace.req.peer)) =>
        IF deviceNameEnv # ""
        THEN /\ OneMutation(trace)
             /\ trace.req.enable
                  <=> (ParseKey(trace.req.peer.PublicKey).key \in PeerKeys(devPeers))
        ELSE OnlyFallback(trace)

\* New() hands updatePeerCall a handle: the client is constructed and the
\* device named by WG_DEVICE_NAME is found.
NewSucceeds(t) ==
    deviceNameEnv = DeviceName /\ t.req.fault \notin {"wgctrl.New", "New.Device"}

\* C9 as amended: that holds when New() succeeds, the state of the device
\* when ConfigureDevice succeeds too; when New() fails UpdatePeer returns
\* its error with no mutation and no fallback call.
C9_UpdatePeerOneMutationIfNewSucceeds ==
    (trace.op = "UpdatePeer" /\ ValidModelPeer(trace.req.peer)) =>
        IF deviceNameEnv = "" THEN OnlyFallback(trace)
        ELSE IF ~NewSucceeds(trace)
        THEN /\ trace.err # NoErr
             /\ ~Mutated(trace)
             /\ "core.UpdatePeer" \notin SeqToSet(trace.calls)
        ELSE /\ OneMutation(trace)
             /\ trace.err = NoErr =>
                  (trace.req.enable
                     <=> (ParseKey(trace.req.peer.PublicKey).key \in PeerKeys(devPeers)))

C9_Witness ==
    /\ trace.op = "UpdatePeer"
    /\ ValidModelPeer(trace.req.peer)
    /\ trace.req.enable
    /\ trace.req.peer.PresharedKey # ""
    /\ trace.req.peer.AllowedIPs # <<>>
    /\ trace.err = NoErr
    /\ Len(devPeers) >= 2

FixedCode(op) ==
    CASE op = "ParseError" -> -32700
      [] op = "InvalidRequest" -> -32600
      [] op = "MethodNotFound" -> -32601
      [] op = "InvalidParams" -> -32602
      [] op = "InternalError" -> -32603

\* C10 as claimed: the five fixed constructors carry their JSON-RPC codes,
\* and whatever code ServerError is given, its Error's code lies in
\* -32099..-32000.
C10_StandardCodes ==
    trace.err.kind = "Error" =>
        IF trace.op = "ServerError"
        THEN trace.err.Code \in ServerCodeLow..ServerCodeHigh
        ELSE trace.err.Code = FixedCode(trace.op)

\* C10 as amended: ServerError's Error carries the code it was given, so
\* it lies in -32099..-32000 exactly when that code does.
C10_CodesAsGiven ==
    trace.err.kind = "Error" =>
        IF trace.op = "ServerError"
        THEN /\ trace.err.Code = trace.req.code
             /\ (trace.err.Code \in ServerCodeLow..ServerCodeHigh)
                  <=> (trace.req.code \in ServerCodeLow..ServerCodeHigh)
        ELSE trace.err.Code = FixedCode(trace.op)

C10_Witness ==
    /\ trace.op = "ServerError"
    /\ trace.req.code = ServerCodeLow - 1
    /\ trace.err.Code = trace.req.code
====
